---- MODULE Spec2Model ----
(***************************************************************************)
(* A state-machine model of projects/sampleCounts/sample_uniform.py: the   *)
(* script reads a sparse transition matrix, obtains one jump table per     *)
(* state (from the pickled side file <matrix>.jumps, or by building and    *)
(* pickling them), then for every trial draws nsamples transitions from    *)
(* every state into the count matrix C and writes C with mmwrite.          *)
(*                                                                         *)
(* Matrices are functions over 0-based indices, as in the script; Python   *)
(* tuples (possible_j, jprobs) are TLA+ tuples, so jumps[i][1] is the      *)
(* script's jumps[i][0] and jumps[i][2] its jumps[i][1].                   *)
(***************************************************************************)
EXTENDS Integers, Sequences, FiniteSets, TLC

VARIABLES
    argc,          \* number of command-line arguments supplied (len(sys.argv)-1)
    nsamples,      \* int(sys.argv[3]), 0 until parsed
    ntrials,       \* int(sys.argv[4]), 0 until parsed
    matrixFile,    \* the file microTFn: [exists, data] in Matrix Market form
    jumpFile,      \* the file microTFn+'.jumps': [exists, data] (pickled dict)
    jumpFile0,     \* history: jumpFile as it was when the run started
    saveFailed,    \* history: open(jumpFn,'w') / pickle.dump raised
    pc,            \* position of the script
    exitCode,      \* process exit status, -1 while running
    err,           \* name of the uncaught exception, "" if none
    T,             \* the transition matrix read by mmread (lil form)
    NumStates,     \* T.shape[0]
    jumps,         \* dict {i: (possible_j, jprobs)}
    C,             \* the count matrix (scipy.sparse.lil_matrix)
    TotalCounts,   \* running total printed after each trial
    trial, i, k,   \* loop indices of the three nested loops
    possible_j,    \* local of the state loop, line 106
    jprobs,        \* local of the state loop, line 107
    written,       \* history: the mmwrite calls made, in order: [name, data]
    cacheRead,     \* history: pickle.load was executed
    built,         \* history: the construction loop of lines 76-87 was executed
    draws          \* history: number of draw_index calls that returned

vars == <<argc, nsamples, ntrials, matrixFile, jumpFile, jumpFile0, saveFailed,
          pc, exitCode, err, T, NumStates, jumps, C, TotalCounts, trial, i, k,
          possible_j, jprobs, written, cacheRead, built, draws>>

-----------------------------------------------------------------------------
(* Bounds of the model *)

MaxSamples == 2
MaxTrials == 2

\* dimensions and entry values of the transition matrices considered
Dims == {1, 2}
Vals == {0, 1}
ArgCounts == {4, 5}
outName == "out"

Matrices == UNION {[0..(n-1) -> [0..(n-1) -> Vals]] : n \in Dims}

Dim(M) == Cardinality(DOMAIN M)

-----------------------------------------------------------------------------
(* scipy.io.mmwrite / mmread: coordinate list, one (row, column, value)     *)
(* triple per nonzero entry, 1-indexed.                                     *)

MMWrite(M, n) ==
    [rows |-> n, cols |-> n,
     entries |-> {<<r + 1, c + 1, M[r][c]>> : <<r, c>> \in
                    {p \in (0..(n-1)) \X (0..(n-1)) : M[p[1]][p[2]] # 0}}]

MMRead(f) ==
    [r \in 0..(f.rows - 1) |->
        [c \in 0..(f.cols - 1) |->
            IF \E e \in f.entries : e[1] = r + 1 /\ e[2] = c + 1
            THEN (CHOOSE e \in f.entries : e[1] = r + 1 /\ e[2] = c + 1)[3]
            ELSE 0]]

ZeroMatrix(n) == [r \in 0..(n-1) |-> [c \in 0..(n-1) |-> 0]]

-----------------------------------------------------------------------------
(* Jump-table construction, lines 76-87 *)

RECURSIVE NonzeroFrom(_, _, _)
NonzeroFrom(row, c, n) ==
    IF c >= n THEN <<>>
    ELSE (IF row[c] # 0 THEN <<c>> ELSE <<>>) \o NonzeroFrom(row, c + 1, n)

\* variant of Nonzero: the scan of the row starts at column 1
Nonzero_skipFirst(M, s, n) == NonzeroFrom(M[s], 1, n)

\* T[i,:].nonzero()[1]: the columns of the nonzero entries of row i, increasing
Nonzero(M, s, n) == NonzeroFrom(M[s], 0, n)

\* np.array(T[i,possible_j].todense()).reshape(...): the values at those columns
RowValues(M, s, pj) == [x \in 1..Len(pj) |-> M[s][pj[x]]]

JumpEntry(M, s, n) == <<Nonzero(M, s, n), RowValues(M, s, Nonzero(M, s, n))>>

\* the loop "for i in range(NumStates): ... jumps[i] = (possible_j, jprobs)"
MakeJumpDict(M, n) == [s \in 0..(n-1) |-> JumpEntry(M, s, n)]

-----------------------------------------------------------------------------
(* pickle.dump / pickle.load of the dict: a set of (key, value) items *)

Pickle(d) == {<<s, d[s][1], d[s][2]>> : s \in DOMAIN d}

Unpickle(b) ==
    [s \in {e[1] : e \in b} |->
        LET e == CHOOSE e \in b : e[1] = s IN <<e[2], e[3]>>]

-----------------------------------------------------------------------------
(* draw_index(probs) of HelperTools: inverse-CDF selection *)

RECURSIVE CumSum(_, _)
CumSum(w, x) == IF x = 0 THEN 0 ELSE CumSum(w, x - 1) + w[x]

Total(w) == CumSum(w, Len(w))

\* smallest index whose cumulative weight exceeds u
PickIndex(w, u) == CHOOSE x \in 1..Len(w) :
                      /\ CumSum(w, x) > u
                      /\ \A y \in 1..(x-1) : CumSum(w, y) <= u

\* the indices draw_index can return for weights w
draw_index(w) == {PickIndex(w, u) : u \in 0..(Total(w) - 1)}

-----------------------------------------------------------------------------
\* variant of OutFileName: the trial index is written 1-based
OutFileName_oneBased(stem, ns, t) == <<"tCounts", "uniform", stem, ns, t + 1, "mtx">>

\* variant of Record: row and column exchanged
Record_transposed(M, s, j) == [M EXCEPT ![j][s] = @ + 1]

-----------------------------------------------------------------------------
(* the output file name 'tCounts.uniform.%s.%d.%d.mtx' % (outName,nsamples,trial) *)

OutFileName(stem, ns, t) == <<"tCounts", "uniform", stem, ns, t, "mtx">>

\* C[i,j] += 1
Record(M, s, j) == [M EXCEPT ![s][j] = @ + 1]

-----------------------------------------------------------------------------
NoFile == [exists |-> FALSE, data |-> {}]

Init ==
    /\ argc \in ArgCounts
    /\ nsamples = 0
    /\ ntrials = 0
    /\ \/ matrixFile = NoFile
       \/ \E M \in Matrices :
            matrixFile = [exists |-> TRUE, data |-> MMWrite(M, Dim(M))]
    \* the side file is absent, or is what an earlier run of the script
    \* pickled for the matrix that microTFn held at that time
    /\ \/ jumpFile = NoFile
       \/ \E M \in Matrices :
            jumpFile = [exists |-> TRUE,
                        data |-> Pickle(MakeJumpDict(M, Dim(M)))]
    /\ jumpFile0 = jumpFile
    /\ saveFailed = FALSE
    /\ pc = "start"
    /\ exitCode = -1
    /\ err = ""
    /\ T = ZeroMatrix(0)
    /\ NumStates = 0
    /\ jumps = ZeroMatrix(0)
    /\ C = ZeroMatrix(0)
    /\ TotalCounts = 0
    /\ trial = 0 /\ i = 0 /\ k = 0
    /\ possible_j = <<>> /\ jprobs = <<>>
    /\ written = <<>>
    /\ cacheRead = FALSE
    /\ built = FALSE
    /\ draws = 0

\* sys.exit(1)
Exit1 == pc' = "exit" /\ exitCode' = 1

\* an uncaught exception ends the interpreter with status 1
Abort(e) == pc' = "aborted" /\ exitCode' = 1 /\ err' = e

\* variant of CheckArgs: the argument count is compared with 5
CheckArgs_offByOne ==
    /\ pc = "start"
    /\ IF argc + 1 < 5
       THEN Exit1 /\ UNCHANGED <<nsamples, ntrials>>
       ELSE /\ nsamples' \in 0..MaxSamples
            /\ ntrials' \in 0..MaxTrials
            /\ pc' = "readT"
            /\ UNCHANGED exitCode
    /\ UNCHANGED <<argc, matrixFile, jumpFile, jumpFile0,
                   saveFailed, err, T, NumStates, jumps, C, TotalCounts, trial,
                   i, k, possible_j, jprobs, written, cacheRead, built, draws>>

\* lines 30-38
CheckArgs ==
    /\ pc = "start"
    /\ IF argc + 1 < 6
       THEN Exit1 /\ UNCHANGED <<nsamples, ntrials>>
       ELSE /\ nsamples' \in 0..MaxSamples
            /\ ntrials' \in 0..MaxTrials
            /\ pc' = "readT"
            /\ UNCHANGED exitCode
    /\ UNCHANGED <<argc, matrixFile, jumpFile, jumpFile0,
                   saveFailed, err, T, NumStates, jumps, C, TotalCounts, trial,
                   i, k, possible_j, jprobs, written, cacheRead, built, draws>>

\* lines 45-65
ReadMatrix ==
    /\ pc = "readT"
    /\ IF matrixFile.exists
       THEN /\ T' = MMRead(matrixFile.data)
            /\ NumStates' = matrixFile.data.rows
            /\ pc' = "jumps"
            /\ UNCHANGED exitCode
       ELSE /\ Exit1
            /\ UNCHANGED <<T, NumStates>>
    /\ UNCHANGED <<argc, nsamples, ntrials, matrixFile, jumpFile, jumpFile0,
                   saveFailed, err, jumps, C, TotalCounts, trial,
                   i, k, possible_j, jprobs, written, cacheRead, built, draws>>

\* lines 67-73
LoadJumps ==
    /\ pc = "jumps"
    /\ jumpFile.exists
    /\ jumps' = Unpickle(jumpFile.data)
    /\ cacheRead' = TRUE
    /\ pc' = "alloc"
    /\ UNCHANGED <<argc, nsamples, ntrials, matrixFile, jumpFile, jumpFile0,
                   saveFailed, exitCode, err, T, NumStates, C, TotalCounts,
                   trial, i, k, possible_j, jprobs, written, built, draws>>

\* lines 74-87
MakeJumps ==
    /\ pc = "jumps"
    /\ ~jumpFile.exists
    /\ jumps' = MakeJumpDict(T, NumStates)
    /\ built' = TRUE
    /\ pc' = "pickle"
    /\ UNCHANGED <<argc, nsamples, ntrials, matrixFile, jumpFile, jumpFile0,
                   saveFailed, exitCode, err, T, NumStates, C, TotalCounts,
                   trial, i, k, possible_j, jprobs, written, cacheRead, draws>>

\* variant of PickleJumps: the tables are not written to the side file
PickleJumps_unsaved ==
    /\ pc = "pickle"
    /\ pc' = "alloc"
    /\ UNCHANGED <<argc, nsamples, ntrials, matrixFile, jumpFile, jumpFile0,
                   saveFailed, exitCode, err, T, NumStates, jumps, C,
                   TotalCounts, trial, i, k, possible_j, jprobs, written,
                   cacheRead, built, draws>>

\* lines 89-93
PickleJumps ==
    /\ pc = "pickle"
    /\ \/ /\ jumpFile' = [exists |-> TRUE, data |-> Pickle(jumps)]
          /\ pc' = "alloc"
          /\ UNCHANGED <<exitCode, err, saveFailed>>
       \/ \* the file cannot be written: the exception is not caught
          /\ saveFailed' = TRUE
          /\ Abort("IOError")
          /\ UNCHANGED jumpFile
    /\ UNCHANGED <<argc, nsamples, ntrials, matrixFile, jumpFile0,
                   T, NumStates, jumps, C, TotalCounts,
                   trial, i, k, possible_j, jprobs, written, cacheRead, built,
                   draws>>

\* lines 95-96
AllocCounts ==
    /\ pc = "alloc"
    /\ C' = ZeroMatrix(NumStates)
    /\ TotalCounts' = 0
    /\ trial' = 0
    /\ pc' = "trial"
    /\ UNCHANGED <<argc, nsamples, ntrials, matrixFile, jumpFile, jumpFile0,
                   saveFailed, exitCode, err, T, NumStates, jumps,
                   i, k, possible_j, jprobs, written, cacheRead, built, draws>>

\* line 98, entering the body
BeginTrial ==
    /\ pc = "trial"
    /\ trial < ntrials
    /\ i' = 0
    /\ pc' = "state"
    /\ UNCHANGED <<argc, nsamples, ntrials, matrixFile, jumpFile, jumpFile0,
                   saveFailed, exitCode, err, T, NumStates, jumps, C,
                   TotalCounts, trial, k, possible_j, jprobs, written,
                   cacheRead, built, draws>>

\* lines 100-107
BeginState ==
    /\ pc = "state"
    /\ i < NumStates
    /\ IF i \in DOMAIN jumps
       THEN /\ possible_j' = jumps[i][1]
            /\ jprobs' = jumps[i][2]
            /\ k' = 0
            /\ pc' = "draw"
            /\ UNCHANGED <<exitCode, err>>
       ELSE /\ Abort("KeyError")
            /\ UNCHANGED <<possible_j, jprobs, k>>
    /\ UNCHANGED <<argc, nsamples, ntrials, matrixFile, jumpFile, jumpFile0,
                   saveFailed, T, NumStates, jumps, C, TotalCounts, trial, i,
                   written, cacheRead, built, draws>>

\* variant of Draw: a state without destinations is skipped silently
Draw_skipEmpty ==
    /\ pc = "draw"
    /\ k < nsamples
    /\ IF Total(jprobs) = 0
       THEN /\ k' = nsamples
            /\ UNCHANGED <<C, draws, pc, exitCode, err>>
       ELSE \E x \in draw_index(jprobs) :
              LET j == possible_j[x] IN
              /\ draws' = draws + 1
              /\ IF j \in 0..(NumStates - 1)
                 THEN /\ C' = Record(C, i, j)
                      /\ k' = k + 1
                      /\ UNCHANGED <<pc, exitCode, err>>
                 ELSE /\ Abort("IndexError")
                      /\ UNCHANGED <<C, k>>
    /\ UNCHANGED <<argc, nsamples, ntrials, matrixFile, jumpFile, jumpFile0,
                   saveFailed, T, NumStates, jumps, TotalCounts, trial, i,
                   possible_j, jprobs, written, cacheRead, built>>

\* lines 110-112, one iteration
Draw ==
    /\ pc = "draw"
    /\ k < nsamples
    /\ IF Total(jprobs) = 0
       THEN /\ Abort("DegenerateDistributionError")
            /\ UNCHANGED <<C, k, draws>>
       ELSE \E x \in draw_index(jprobs) :
              LET j == possible_j[x] IN
              /\ draws' = draws + 1
              /\ IF j \in 0..(NumStates - 1)
                 THEN /\ C' = Record(C, i, j)
                      /\ k' = k + 1
                      /\ UNCHANGED <<pc, exitCode, err>>
                 ELSE /\ Abort("IndexError")
                      /\ UNCHANGED <<C, k>>
    /\ UNCHANGED <<argc, nsamples, ntrials, matrixFile, jumpFile, jumpFile0,
                   saveFailed, T, NumStates, jumps, TotalCounts, trial, i,
                   possible_j, jprobs, written, cacheRead, built>>

\* line 110 exhausted: next state
EndState ==
    /\ pc = "draw"
    /\ k >= nsamples
    /\ i' = i + 1
    /\ pc' = "state"
    /\ UNCHANGED <<argc, nsamples, ntrials, matrixFile, jumpFile, jumpFile0,
                   saveFailed, exitCode, err, T, NumStates, jumps, C,
                   TotalCounts, trial, k, possible_j, jprobs, written,
                   cacheRead, built, draws>>

\* variant of WriteTrial: the count matrix is emptied after it is written
WriteTrial_reset ==
    /\ pc = "state"
    /\ i >= NumStates
    /\ TotalCounts' = TotalCounts + NumStates * nsamples
    /\ written' = Append(written,
                         [name |-> OutFileName(outName, nsamples, trial),
                          data |-> MMWrite(C, NumStates)])
    /\ C' = ZeroMatrix(NumStates)
    /\ trial' = trial + 1
    /\ pc' = "trial"
    /\ UNCHANGED <<argc, nsamples, ntrials, matrixFile, jumpFile, jumpFile0,
                   saveFailed, exitCode, err, T, NumStates, jumps, i, k,
                   possible_j, jprobs, cacheRead, built, draws>>

\* lines 114-117
WriteTrial ==
    /\ pc = "state"
    /\ i >= NumStates
    /\ TotalCounts' = TotalCounts + NumStates * nsamples
    /\ written' = Append(written,
                         [name |-> OutFileName(outName, nsamples, trial),
                          data |-> MMWrite(C, NumStates)])
    /\ trial' = trial + 1
    /\ pc' = "trial"
    /\ UNCHANGED <<argc, nsamples, ntrials, matrixFile, jumpFile, jumpFile0,
                   saveFailed, exitCode, err, T, NumStates, jumps, C, i, k,
                   possible_j, jprobs, cacheRead, built, draws>>

\* line 119 and normal termination
Finish ==
    /\ pc = "trial"
    /\ trial >= ntrials
    /\ pc' = "done"
    /\ exitCode' = 0
    /\ UNCHANGED <<argc, nsamples, ntrials, matrixFile, jumpFile, jumpFile0,
                   saveFailed, err, T, NumStates, jumps, C, TotalCounts, trial,
                   i, k, possible_j, jprobs, written, cacheRead, built, draws>>

Next ==
    \/ CheckArgs
    \/ ReadMatrix
    \/ LoadJumps
    \/ MakeJumps
    \/ PickleJumps
    \/ AllocCounts
    \/ BeginTrial
    \/ BeginState
    \/ Draw
    \/ EndState
    \/ WriteTrial
    \/ Finish

Spec == Init /\ [][Next]_vars

-----------------------------------------------------------------------------
(* The construction of the jump tables taken alone: the states the script   *)
(* is in after lines 30-65 have read a matrix and found no side file, over  *)
(* a wider family of matrices, followed by lines 74-93.                     *)

BuildDims == {1, 2, 3}
BuildVals == {0, 1, 2}
BuildMatrices == UNION {[0..(n-1) -> [0..(n-1) -> BuildVals]] : n \in BuildDims}

InitBuild ==
    /\ argc = 5
    /\ nsamples = MaxSamples
    /\ ntrials = MaxTrials
    /\ \E M \in BuildMatrices :
         /\ matrixFile = [exists |-> TRUE, data |-> MMWrite(M, Dim(M))]
         /\ T = MMRead(MMWrite(M, Dim(M)))
         /\ NumStates = Dim(M)
    /\ jumpFile = NoFile
    /\ jumpFile0 = jumpFile
    /\ saveFailed = FALSE
    /\ pc = "jumps"
    /\ exitCode = -1
    /\ err = ""
    /\ jumps = ZeroMatrix(0)
    /\ C = ZeroMatrix(0)
    /\ TotalCounts = 0
    /\ trial = 0 /\ i = 0 /\ k = 0
    /\ possible_j = <<>> /\ jprobs = <<>>
    /\ written = <<>>
    /\ cacheRead = FALSE
    /\ built = FALSE
    /\ draws = 0

NextBuild ==
    \/ MakeJumps
    \/ PickleJumps

SpecBuild == InitBuild /\ [][NextBuild]_vars

-----------------------------------------------------------------------------
(* Vocabulary of the properties *)

States == 0..(NumStates - 1)

Terminated == pc \in {"exit", "aborted", "done"}

\* the script is inside the trial loop of lines 98-117
InTrials == pc \in {"trial", "state", "draw"}

Range(q) == {q[x] : x \in 1..Len(q)}

RECURSIVE SumUpTo(_, _)
SumUpTo(row, c) == IF c < 0 THEN 0 ELSE row[c] + SumUpTo(row, c - 1)

\* sum of row s of an n x n matrix
RowSum(M, s, n) == SumUpTo(M[s], n - 1)

NameOfTrial(t) == <<"tCounts", "uniform", outName, nsamples, t, "mtx">>

DegenerateErrors == {"EmptyJumpTableError", "DegenerateDistributionError"}

-----------------------------------------------------------------------------
(* C1: counts do not carry over between trials.                             *)

-----------------------------------------------------------------------------
(* C2: single-successor chain, one trial.                                   *)

\* every row of the matrix read has exactly one nonzero entry
SingleSuccessor == /\ NumStates > 0
                   /\ \A s \in States :
                        Cardinality({c \in States : T[s][c] # 0}) = 1

\* C2 as stated: for a matrix whose rows have exactly one nonzero entry and
\* ntrials = 1, the emitted count matrix has entry (s, succ(s)) = nsamples
\* for every state s and no other nonzero entry, and a run that ends
\* normally emitted it.
C2_ChainCounts ==
    (pc \in {"trial", "done", "aborted"} /\ SingleSuccessor /\ ntrials = 1) =>
        /\ pc = "done" => Len(written) = 1
        /\ \A t \in 1..Len(written) : \A s \in States : \A c \in States :
              MMRead(written[t].data)[s][c] =
                  IF T[s][c] # 0 THEN nsamples ELSE 0

-----------------------------------------------------------------------------
(* C3: one output file per trial, in order, between the trials' draws.      *)

-----------------------------------------------------------------------------
(* C4: too few arguments or a missing matrix file.                          *)

BadInvocation == argc < 5 \/ ~matrixFile.exists

\* C4: with fewer than 5 arguments or no matrix file, the run only reaches
\* sys.exit(1): the side file is neither read nor built nor changed, no draw
\* is made and no output file is written.
C4_EarlyExit ==
    BadInvocation =>
        /\ pc \in {"start", "readT", "exit"}
        /\ argc < 5 => pc \in {"start", "exit"}
        /\ pc = "exit" => exitCode = 1
        /\ pc # "exit" => ENABLED Next
        /\ ~cacheRead
        /\ ~built
        /\ jumpFile = jumpFile0
        /\ draws = 0
        /\ written = <<>>

\* the run has ended for a missing matrix file although a side file exists
C4_Witness ==
    /\ pc = "exit"
    /\ argc >= 5
    /\ ~matrixFile.exists
    /\ jumpFile0.exists

-----------------------------------------------------------------------------
(* C5: sampling a state whose jump table is empty.                          *)

\* state s has a jump table with no destinations
EmptyTable(s) == s \in DOMAIN jumps /\ Len(jumps[s][1]) = 0

-----------------------------------------------------------------------------
(* C6: a failure to save the side file.                                     *)

\* C6 as stated: when the side file is absent and writing it fails, the run
\* does not end for that reason, and unless some other error ends it, it
\* ends normally with all ntrials output files written.
C6_SaveFailureNonFatal ==
    (saveFailed /\ Terminated) =>
        /\ err # "IOError"
        /\ err = "" => (pc = "done" /\ Len(written) = ntrials)

-----------------------------------------------------------------------------
(* C7: the side file is created if absent and reused if present.            *)

\* the script is past lines 67-93
PastJumps == pc \in {"alloc", "trial", "state", "draw", "done"}

\* C7: if the side file exists at start, the tables are those unpickled
\* from it, nothing is built and the file is never rewritten; if it is
\* absent, it is not read, and before the first draw the tables are built
\* for all states and the file holds exactly the tables sampled from.
C7_CacheCreatedOrReused ==
    /\ jumpFile0.exists =>
          /\ ~built
          /\ jumpFile = jumpFile0
          /\ (PastJumps \/ draws > 0) =>
                /\ cacheRead
                /\ Pickle(jumps) = jumpFile0.data
    /\ ~jumpFile0.exists =>
          /\ ~cacheRead
          /\ (PastJumps \/ draws > 0) =>
                /\ built
                /\ DOMAIN jumps = States
                /\ jumpFile.exists
                /\ Unpickle(jumpFile.data) = jumps

\* a run that started without side file has drawn and ended with one
C7_Witness ==
    /\ ~jumpFile0.exists
    /\ jumpFile.exists
    /\ draws > 0
    /\ pc = "done"

-----------------------------------------------------------------------------
(* C8: the jump tables built from the matrix.                               *)

\* C8: the tables built have keys exactly 0..N-1; for each state s the
\* destinations are the columns of the nonzero entries of row s in
\* increasing order, the weights have the same length, weights[x] is the
\* matrix value at (s, destinations[x]); the matrix is unchanged.
C8_BuildAll ==
    built =>
        /\ DOMAIN jumps = States
        /\ \A s \in States :
              LET d == jumps[s][1]
                  w == jumps[s][2]
              IN /\ Range(d) = {c \in States : T[s][c] # 0}
                 /\ \A x \in 1..Len(d) : \A y \in 1..Len(d) :
                       x < y => d[x] < d[y]
                 /\ Len(w) = Len(d)
                 /\ \A x \in 1..Len(d) : w[x] = T[s][d[x]]
        /\ T = MMRead(matrixFile.data)

\* tables have been built for a 3-state matrix that has a row with several
\* nonzero entries of different values and an all-zero row
C8_Witness ==
    /\ built
    /\ NumStates = 3
    /\ \E s \in States : Len(jumps[s][1]) = 0
    /\ \E s \in States : /\ Len(jumps[s][1]) >= 2
                         /\ jumps[s][2][1] # jumps[s][2][2]
                         /\ jumps[s][1][1] > 0

-----------------------------------------------------------------------------
(* C9: every recorded transition goes to a destination of the jump table.   *)

Destinations(s) == IF s \in DOMAIN jumps THEN Range(jumps[s][1]) ELSE {}

\* C9: each draw that is recorded increments exactly one entry (i, j) of C
\* by 1, with j among the destinations of the table of the state i being
\* sampled, and leaves every other entry unchanged; every nonzero count
\* (a, b) has b among the destinations of a; with nsamples = 0 the count
\* matrix stays all-zero.
C9_DrawsFollowTable ==
    /\ [][(pc = "draw" /\ (C' # C \/ k' # k)) =>
            \E j \in Destinations(i) :
                /\ j \in States
                /\ C'[i][j] = C[i][j] + 1
                /\ \A a \in States : \A b \in States :
                      <<a, b>> # <<i, j>> => C'[a][b] = C[a][b]
                /\ DOMAIN C' = DOMAIN C
                /\ k' = k + 1]_vars
    /\ [](\A a \in DOMAIN C : \A b \in DOMAIN C[a] :
            /\ C[a][b] > 0 => b \in Destinations(a)
            /\ nsamples = 0 => C[a][b] = 0)

\* counts have been recorded from a table with more than one destination
C9_Witness ==
    /\ pc = "draw"
    /\ Len(possible_j) >= 2
    /\ \E b \in DOMAIN C[i] : C[i][b] >= 2

-----------------------------------------------------------------------------
(* C10: the tables sampled from are those of the matrix loaded in this run. *)

\* C10 as stated: whenever a state is sampled, built or loaded, the tables
\* have an entry for every state of the matrix read in this run, each equal
\* to the nonzero columns and values of that matrix row.
C10_TablesMatchMatrix ==
    pc \in {"state", "draw"} =>
        /\ DOMAIN jumps = States
        /\ \A s \in States :
              /\ Range(jumps[s][1]) = {c \in States : T[s][c] # 0}
              /\ Len(jumps[s][2]) = Len(jumps[s][1])
              /\ \A x \in 1..Len(jumps[s][1]) :
                    jumps[s][2][x] = T[s][jumps[s][1][x]]

====
